---- MODULE Spec2Model ----
(***************************************************************************)
(* Social_Media_API: the relational rows (User, Post, Follow, Like,        *)
(* Comment) and the request handlers of interactions/views.py,             *)
(* posts/views.py and users/views.py that create, update and delete them,  *)
(* with the clock and the task queue behind scheduled posts.  Each table   *)
(* is a set of rows with an auto-increment id.  A handler is a function of *)
(* the tables and the request: the ...Result operators compute its         *)
(* response and the tables it leaves, and the action of the same name      *)
(* applies them.  Like-create is split at the boundary between its         *)
(* existence check and its INSERT so that concurrent requests can          *)
(* interleave.  The read-only handlers (list, retrieve) are operators only.*)
(***************************************************************************)
EXTENDS Integers, FiniteSets, Sequences, TLC

\* ------------------------------------------------------------------ bounds
NumUsers == 2
NumPosts == 2
MaxRowId == 3
MaxInflight == 2
MaxComments == 2
\* the registrations that create a user
MaxNewUsers == 2
\* clock ticks in one second
TicksPerSecond == 2

\* Python's None / a key absent from the request body
None == 0

Users == 1..NumUsers
\* an email address, and a username (a name has no domain)
Email(local, domain) == [local |-> local, domain |-> domain]

\* the accounts the requests come from: setUp's User.objects.create_user rows
InitialUsers ==
    {[id |-> i, email |-> Email(ToString(i), "x.com"), username |-> Email(ToString(i), "")] :
        i \in Users}

\* the pk of a post a request may name: an existing one or one that names no row
PostPks == 1..(NumPosts + 1)
RowPks == 1..MaxRowId
CommentPks == 1..MaxComments
Contents == {"a", "b"}
\* "" is blank content, Absent a key missing from the body
Absent == "<absent>"
\* what a request body may carry for a user or post key
BodyUsers == Users \cup {None}
BodyPosts == PostPks \cup {None}

VARIABLES posts, follows, likes, comments, postSeq, followSeq, likeSeq, commentSeq, pending, resp,
          now, tasks, taskSeq, userRows, userSeq, profileFollowing

\* the clock and the task queue of the worker
scheduleVars == <<now, tasks, taskSeq>>

\* the User rows and the following relation of their profiles
accountVars == <<userRows, userSeq, profileFollowing>>

vars == <<posts, follows, likes, comments, postSeq, followSeq, likeSeq, commentSeq, pending, resp,
          now, tasks, taskSeq, userRows, userSeq, profileFollowing>>

\* ------------------------------------------------------------- responses
\* an HTTP response of a view
Response(op, status, detail) ==
    [op |-> op, status |-> status, detail |-> detail,
     exc |-> "", data |-> {}]

\* a 200 response carrying serialized rows (their ids)
DataResponse(op, ids) ==
    [op |-> op, status |-> 200, detail |-> "",
     exc |-> "", data |-> ids]

\* an exception no handler catches: the framework answers 500
Raised(op, exc) ==
    [op |-> op, status |-> 500, detail |-> "",
     exc |-> exc, data |-> {}]

Denied(op) == Response(op, 403, "You do not have permission to perform this action.")

NotFound(op) == Response(op, 404, "Not found.")

\* the request is past its checks and has not answered yet
InProgress(op) ==
    [op |-> op, status |-> 0, detail |-> "",
     exc |-> "", data |-> {}]

NoResponse == Response("", 0, "")
NoRequest == [user |-> None, post |-> None]

\* ------------------------------------------------------------ permissions
SAFE_METHODS == {"GET", "HEAD", "OPTIONS"}

IsOwnerOrReadOnlyAllowAll(method, obj, u) == "allow"

\* has_object_permission: obj.user is read off the row, whatever its model
IsOwnerOrReadOnly(method, obj, u) ==
    IF method \in SAFE_METHODS THEN "allow"
    ELSE IF "user" \notin DOMAIN obj THEN "AttributeError"
    ELSE IF obj.user = u THEN "allow"
    ELSE "deny"

\* queryset.get(pk=pk): the rows of the table with that id
GetObject(rows, pk) == {r \in rows : r.id = pk}

\* ------------------------------------------------------------------ posts
\* the fixture: post i written by user ((i - 1) mod NumUsers) + 1
InitialPosts ==
    {[id |-> i, author |-> ((i - 1) % NumUsers) + 1, content |-> "a"] : i \in 1..NumPosts}

PostExists(pk) == \E p \in posts : p.id = pk

UserExists(u) == \E r \in userRows : r.id = u

\* ------------------------------------------------------------------ likes
LikeUniqueTogetherDropped(rows, u, p) == FALSE

\* unique_together = ("user", "post"): would a row (u, p) break the constraint
LikeUniqueTogether(rows, u, p) == \E r \in rows : r.user = u /\ r.post = p

LikeFilterExistsSkipped(u, p) == FALSE

\* Like.objects.filter(user=request.user, post=post).exists()
LikeFilterExists(u, p) == \E r \in likes : r.user = u /\ r.post = p

\* LikeViewSet.create up to its existence check, in request slot s
LikeCreateCheckResult(s, u, post_id) ==
    IF post_id = None
      THEN [resp |-> Response("like_create", 400, "Post ID is required."), pending |-> pending]
    ELSE IF ~PostExists(post_id)
      \* Post.DoesNotExist is raised and the except clause names
      \* Post.DoesNotExists, which the model class does not have
      THEN [resp |-> Raised("like_create", "AttributeError"), pending |-> pending]
    ELSE IF LikeFilterExists(u, post_id)
      THEN [resp |-> Response("like_create", 400, "You have already liked this post."),
            pending |-> pending]
    ELSE [resp |-> InProgress("like_create"),
          pending |-> [pending EXCEPT ![s] = [user |-> u, post |-> post_id]]]

LikeCreateCheck(s, u, post_id) ==
    LET o == LikeCreateCheckResult(s, u, post_id)
    IN  /\ pending[s] = NoRequest
        /\ likeSeq + Cardinality({t \in DOMAIN pending : pending[t] # NoRequest}) <= MaxRowId
        /\ resp' = o.resp
        /\ pending' = o.pending
        /\ UNCHANGED <<posts, postSeq, follows, likes, comments, followSeq, likeSeq, commentSeq,
                     scheduleVars, accountVars>>

\* LikeViewSet.create from get_serializer on: validate, INSERT, answer
LikeCreateSaveResult(s) ==
    LET u == pending[s].user
        p == pending[s].post
    IN  IF ~PostExists(p)
          THEN [resp |-> Response("like_create", 400, "Invalid pk"),
                likes |-> likes, likeSeq |-> likeSeq]
        \* the INSERT: unique_together, and the foreign key to a user who is gone
        ELSE IF LikeUniqueTogether(likes, u, p) \/ ~UserExists(u)
          THEN [resp |-> Raised("like_create", "IntegrityError"),
                likes |-> likes, likeSeq |-> likeSeq]
        ELSE [resp |-> Response("like_create", 201, ""),
              likes |-> likes \cup {[id |-> likeSeq, user |-> u, post |-> p]},
              likeSeq |-> likeSeq + 1]

LikeCreateSave(s) ==
    LET o == LikeCreateSaveResult(s)
    IN  /\ pending[s] # NoRequest
        /\ resp' = o.resp
        /\ likes' = o.likes
        /\ likeSeq' = o.likeSeq
        /\ pending' = [pending EXCEPT ![s] = NoRequest]
        /\ UNCHANGED <<posts, postSeq, follows, comments, followSeq, commentSeq,
                     scheduleVars, accountVars>>

\* LikeViewSet.destroy: get_object (404, object permissions), perform_destroy
LikeDestroyResult(u, pk) ==
    LET found == GetObject(likes, pk)
        obj == CHOOSE r \in found : TRUE
        perm == IsOwnerOrReadOnly("DELETE", obj, u)
    IN  IF found = {} THEN [resp |-> NotFound("like_destroy"), likes |-> likes]
        ELSE IF perm = "AttributeError"
          THEN [resp |-> Raised("like_destroy", "AttributeError"), likes |-> likes]
        ELSE IF perm = "deny" THEN [resp |-> Denied("like_destroy"), likes |-> likes]
        ELSE [resp |-> Response("like_destroy", 204, ""), likes |-> likes \ {obj}]

LikeDestroy(u, pk) ==
    LET o == LikeDestroyResult(u, pk)
    IN  /\ resp' = o.resp
        /\ likes' = o.likes
        /\ UNCHANGED <<posts, postSeq, follows, comments, followSeq, likeSeq, commentSeq, pending,
                     scheduleVars, accountVars>>

\* LikeViewSet.get_queryset: the post_id filter and the my_like filter
LikeGetQueryset(u, post_id, my_like) ==
    LET byPost == IF post_id = None THEN likes ELSE {r \in likes : r.post = post_id}
    IN  IF my_like THEN {r \in byPost : r.user = u} ELSE byPost

\* LikeViewSet.list: reads only
LikeList(u, post_id, my_like) ==
    DataResponse("like_list", {r.id : r \in LikeGetQueryset(u, post_id, my_like)})

\* ---------------------------------------------------------------- follows
FollowUniqueTogetherDropped(rows, f, g) == FALSE

\* unique_together = ("follower", "following"): would a row (f, g) break it
FollowUniqueTogether(rows, f, g) == \E r \in rows : r.follower = f /\ r.following = g

\* Follow.objects.create(follower=f, following=g): the INSERT under the constraint
FollowObjectsCreateResult(f, g) ==
    IF FollowUniqueTogether(follows, f, g)
      THEN [resp |-> Raised("Follow.objects.create", "IntegrityError"),
            follows |-> follows, followSeq |-> followSeq]
    ELSE [resp |-> Response("Follow.objects.create", 0, ""),
          follows |-> follows \cup {[id |-> followSeq, follower |-> f, following |-> g]},
          followSeq |-> followSeq + 1]

\* the rows the repository's tests set up: follows between two distinct users
FollowObjectsCreate(f, g) ==
    LET o == FollowObjectsCreateResult(f, g)
    IN  /\ f # g
        /\ followSeq <= MaxRowId
        /\ resp' = o.resp
        /\ follows' = o.follows
        /\ followSeq' = o.followSeq
        /\ UNCHANGED <<posts, postSeq, likes, comments, likeSeq, commentSeq, pending,
                     scheduleVars, accountVars>>

\* FollowSerializer.Meta: both foreign keys are writable fields, so the model's
\* unique_together becomes a validator over the body's (follower, following)
FollowUniqueTogetherValidator(data) ==
    \E r \in follows : r.follower = data.follower /\ r.following = data.following

\* FollowSerializer.validate: raises for a self-follow, and otherwise falls off
\* its end, returning None (value is the empty sequence) instead of data
FollowSerializerValidate(u, data) ==
    IF u = data.following
      THEN [raised |-> TRUE, detail |-> "You cannot follow yourself.", value |-> <<>>]
    ELSE [raised |-> FALSE, detail |-> "", value |-> <<>>]

\* FollowViewSet.create: is_valid (fields, validators, validate and the
\* serializer's check that validate returned the data), then perform_create
FollowCreateResult(u, body_follower, body_following) ==
    LET data == [follower |-> body_follower, following |-> body_following]
        op == "follow_create"
        v == FollowSerializerValidate(u, data)
        same(r) == [resp |-> r, follows |-> follows, followSeq |-> followSeq]
    IN  IF body_follower = None \/ body_following = None
          THEN same(Response(op, 400, "This field is required."))
        ELSE IF FollowUniqueTogetherValidator(data)
          THEN same(Response(op, 400, "The fields follower, following must make a unique set."))
        ELSE IF v.raised THEN same(Response(op, 400, v.detail))
        ELSE IF v.value = <<>> THEN same(Raised(op, "AssertionError"))
        \* perform_create: serializer.save(follower=self.request.user)
        ELSE IF FollowUniqueTogether(follows, u, v.value[1].following)
          THEN same(Raised(op, "IntegrityError"))
        ELSE [resp |-> Response(op, 201, ""),
              follows |-> follows \cup
                  {[id |-> followSeq, follower |-> u, following |-> v.value[1].following]},
              followSeq |-> followSeq + 1]

FollowCreate(u, body_follower, body_following) ==
    LET o == FollowCreateResult(u, body_follower, body_following)
    IN  /\ followSeq <= MaxRowId
        /\ resp' = o.resp
        /\ follows' = o.follows
        /\ followSeq' = o.followSeq
        /\ UNCHANGED <<posts, postSeq, likes, comments, likeSeq, commentSeq, pending,
                     scheduleVars, accountVars>>

\* FollowViewSet destroy (the inherited handler under get_permissions):
\* get_object (404, object permissions), perform_destroy
FollowDestroyResult(u, pk) ==
    LET found == GetObject(follows, pk)
        obj == CHOOSE r \in found : TRUE
        perm == IsOwnerOrReadOnly("DELETE", obj, u)
    IN  IF found = {} THEN [resp |-> NotFound("follow_destroy"), follows |-> follows]
        ELSE IF perm = "AttributeError"
          THEN [resp |-> Raised("follow_destroy", "AttributeError"), follows |-> follows]
        ELSE IF perm = "deny" THEN [resp |-> Denied("follow_destroy"), follows |-> follows]
        ELSE [resp |-> Response("follow_destroy", 204, ""), follows |-> follows \ {obj}]

FollowDestroy(u, pk) ==
    LET o == FollowDestroyResult(u, pk)
    IN  /\ resp' = o.resp
        /\ follows' = o.follows
        /\ UNCHANGED <<posts, postSeq, likes, comments, followSeq, likeSeq, commentSeq, pending,
                     scheduleVars, accountVars>>

\* what settings.AUTH_USER_MODEL (not part of the sources) makes of the name
\* User that the view imports from django.contrib.auth.models: TRUE when the
\* setting swaps that model out for users.User, as the posts migration has it
AuthUserSwapped == BOOLEAN

\* FollowViewSet.unfollow: pk names the target user
UnfollowResult(u, pk, swapped) ==
    LET matching == {r \in follows : r.follower = u /\ r.following = pk}
        \* .first(): the row of lowest id
        first == CHOOSE r \in matching : \A q \in matching : r.id <= q.id
    \* User.objects of a swapped-out model: "Manager isn't available"
    IN  IF swapped THEN [resp |-> Raised("unfollow", "AttributeError"), follows |-> follows]
        ELSE IF ~\E r \in userRows : r.id = pk
          THEN [resp |-> Response("unfollow", 404, "User not found."), follows |-> follows]
        ELSE IF matching # {}
          THEN [resp |-> Response("unfollow", 204, "Successfully unfollowed"),
                follows |-> follows \ {first}]
        ELSE [resp |-> Response("unfollow", 400, "You are not following this user."),
              follows |-> follows]

Unfollow(u, pk, swapped) ==
    LET o == UnfollowResult(u, pk, swapped)
    IN  /\ resp' = o.resp
        /\ follows' = o.follows
        /\ UNCHANGED <<posts, postSeq, likes, comments, followSeq, likeSeq, commentSeq, pending,
                     scheduleVars, accountVars>>

\* --------------------------------------------------------------- comments
CommentUniqueTogetherDropped(rows, u, p) == FALSE

\* unique_together = ("user", "post"): would a row (u, p) beside rows break it
CommentUniqueTogether(rows, u, p) == \E r \in rows : r.user = u /\ r.post = p

\* CommentViewSet.create
CommentCreateResult(u, post_id, content) ==
    LET op == "comment_create"
        same(r) == [resp |-> r, comments |-> comments, commentSeq |-> commentSeq]
    IN  IF post_id = None
          THEN same(Response(op, 400, "Post ID is required."))
        ELSE IF content = ""
          THEN same(Response(op, 400, "Comment content cannot be empty."))
        \* the except clause names Post.DoesNotExists
        ELSE IF ~PostExists(post_id) THEN same(Raised(op, "AttributeError"))
        ELSE IF \E r \in comments : r.user = u /\ r.post = post_id
          THEN same(Response(op, 400, "You have already commented on this post."))
        \* perform_create: serializer.save(user=self.request.user)
        ELSE IF CommentUniqueTogether(comments, u, post_id)
          THEN same(Raised(op, "IntegrityError"))
        ELSE [resp |-> Response(op, 201, ""),
              comments |-> comments \cup
                  {[id |-> commentSeq, user |-> u, post |-> post_id, content |-> content]},
              commentSeq |-> commentSeq + 1]

CommentCreate(u, post_id, content) ==
    LET o == CommentCreateResult(u, post_id, content)
    IN  /\ commentSeq <= MaxComments
        /\ resp' = o.resp
        /\ comments' = o.comments
        /\ commentSeq' = o.commentSeq
        /\ UNCHANGED <<posts, postSeq, follows, likes, followSeq, likeSeq, pending,
                     scheduleVars, accountVars>>

\* CommentViewSet.update (PUT) and partial_update (PATCH): get_object,
\* CommentSerializer validation of the writable fields post and content, UPDATE
CommentUpdateResult(u, pk, body_post, body_content, partial) ==
    LET op == IF partial THEN "comment_partial_update" ELSE "comment_update"
        method == IF partial THEN "PATCH" ELSE "PUT"
        found == GetObject(comments, pk)
        obj == CHOOSE r \in found : TRUE
        perm == IsOwnerOrReadOnly(method, obj, u)
        post == IF body_post = None THEN obj.post ELSE body_post
        content == IF body_content = Absent THEN obj.content ELSE body_content
        same(r) == [resp |-> r, comments |-> comments]
    IN  IF found = {} THEN same(NotFound(op))
        ELSE IF perm = "AttributeError" THEN same(Raised(op, "AttributeError"))
        ELSE IF perm = "deny" THEN same(Denied(op))
        ELSE IF ~partial /\ (body_post = None \/ body_content = Absent)
          THEN same(Response(op, 400, "This field is required."))
        ELSE IF ~PostExists(post) THEN same(Response(op, 400, "Invalid pk"))
        ELSE IF content = ""
          THEN same(Response(op, 400, "This field may not be blank."))
        ELSE IF CommentUniqueTogether(comments \ {obj}, obj.user, post)
          THEN same(Raised(op, "IntegrityError"))
        ELSE [resp |-> Response(op, 200, ""),
              comments |-> (comments \ {obj}) \cup
                  {[obj EXCEPT !.post = post, !.content = content]}]

CommentUpdate(u, pk, body_post, body_content, partial) ==
    LET o == CommentUpdateResult(u, pk, body_post, body_content, partial)
    IN  /\ resp' = o.resp
        /\ comments' = o.comments
        /\ UNCHANGED <<posts, postSeq, follows, likes, followSeq, likeSeq, commentSeq, pending,
                     scheduleVars, accountVars>>

\* CommentViewSet.destroy
CommentDestroyResult(u, pk) ==
    LET found == GetObject(comments, pk)
        obj == CHOOSE r \in found : TRUE
        perm == IsOwnerOrReadOnly("DELETE", obj, u)
        same(r) == [resp |-> r, comments |-> comments]
    IN  IF found = {} THEN same(NotFound("comment_destroy"))
        ELSE IF perm = "AttributeError"
          THEN same(Raised("comment_destroy", "AttributeError"))
        ELSE IF perm = "deny" THEN same(Denied("comment_destroy"))
        ELSE [resp |-> Response("comment_destroy", 204, ""), comments |-> comments \ {obj}]

CommentDestroy(u, pk) ==
    LET o == CommentDestroyResult(u, pk)
    IN  /\ resp' = o.resp
        /\ comments' = o.comments
        /\ UNCHANGED <<posts, postSeq, follows, likes, followSeq, likeSeq, commentSeq, pending,
                     scheduleVars, accountVars>>

\* CommentViewSet.get_queryset: the post_id filter, and the user filter, which
\* the code reads from the query parameter my_like
CommentGetQueryset(u, post_id, my_like, my_comments) ==
    LET byPost == IF post_id = None THEN comments
                  ELSE {r \in comments : r.post = post_id}
    IN  IF my_like THEN {r \in byPost : r.user = u} ELSE byPost

\* CommentViewSet.list: reads only
CommentList(u, post_id, my_like, my_comments) ==
    DataResponse("comment_list",
                 {r.id : r \in CommentGetQueryset(u, post_id, my_like, my_comments)})

\* CommentViewSet.retrieve: get_object under GET; reads only
CommentRetrieve(u, pk) ==
    LET found == GetObject(comments, pk)
        obj == CHOOSE r \in found : TRUE
    IN  IF found = {} THEN NotFound("comment_retrieve")
        ELSE IF IsOwnerOrReadOnly("GET", obj, u) = "allow"
          THEN DataResponse("comment_retrieve", {obj.id})
        ELSE Denied("comment_retrieve")

\* ------------------------------------------------------- posts: handlers
\* Post.objects.create(author=a, content=c)
PostObjectsCreate(a, c) ==
    /\ postSeq <= MaxRowId
    /\ posts' = posts \cup {[id |-> postSeq, author |-> a, content |-> c]}
    /\ postSeq' = postSeq + 1
    /\ resp' = Response("Post.objects.create", 0, "")
    /\ UNCHANGED <<follows, likes, comments, followSeq, likeSeq, commentSeq, pending,
                     scheduleVars, accountVars>>

\* posts.permissions.IsAuthorOrReadOnly
IsAuthorOrReadOnly(method, obj, u) ==
    IF method \in SAFE_METHODS THEN "allow"
    ELSE IF obj.author = u THEN "allow"
    ELSE "deny"

PostPermissionClassesWithoutAuthor == <<"IsAuthenticated">>

\* PostViewSet.permission_classes
PostPermissionClasses == <<"IsAuthorOrReadOnly", "IsAuthenticated">>

\* check_object_permissions: every class of permission_classes must allow;
\* IsAuthenticated has no object-level rule
PostCheckObjectPermissions(method, obj, u) ==
    IF \E i \in DOMAIN PostPermissionClasses :
          /\ PostPermissionClasses[i] = "IsAuthorOrReadOnly"
          /\ IsAuthorOrReadOnly(method, obj, u) = "deny"
      THEN "deny"
    ELSE "allow"

\* PostViewSet.update (PUT) and partial_update (PATCH) of the content field
PostUpdateResult(u, pk, body_content, partial) ==
    LET op == IF partial THEN "post_partial_update" ELSE "post_update"
        method == IF partial THEN "PATCH" ELSE "PUT"
        found == GetObject(posts, pk)
        obj == CHOOSE r \in found : TRUE
        content == IF body_content = Absent THEN obj.content ELSE body_content
        same(r) == [resp |-> r, posts |-> posts]
    IN  IF found = {} THEN same(NotFound(op))
        ELSE IF PostCheckObjectPermissions(method, obj, u) = "deny"
          THEN same(Denied(op))
        ELSE IF ~partial /\ body_content = Absent
          THEN same(Response(op, 400, "This field is required."))
        ELSE IF content = ""
          THEN same(Response(op, 400, "This field may not be blank."))
        ELSE [resp |-> Response(op, 200, ""),
              posts |-> (posts \ {obj}) \cup {[obj EXCEPT !.content = content]}]

PostUpdate(u, pk, body_content, partial) ==
    LET o == PostUpdateResult(u, pk, body_content, partial)
    IN  /\ resp' = o.resp
        /\ posts' = o.posts
        /\ UNCHANGED <<postSeq, follows, likes, comments, followSeq, likeSeq, commentSeq, pending,
                     scheduleVars, accountVars>>

\* PostViewSet destroy (DELETE): get_object, perform_destroy; the likes and
\* comments of the post go with it (on_delete=CASCADE)
PostDestroyResult(u, pk) ==
    LET found == GetObject(posts, pk)
        obj == CHOOSE r \in found : TRUE
        same(r) == [resp |-> r, posts |-> posts, likes |-> likes, comments |-> comments]
    IN  IF found = {} THEN same(NotFound("post_destroy"))
        ELSE IF PostCheckObjectPermissions("DELETE", obj, u) = "deny"
          THEN same(Denied("post_destroy"))
        ELSE [resp |-> Response("post_destroy", 204, ""),
              posts |-> posts \ {obj},
              likes |-> {r \in likes : r.post # obj.id},
              comments |-> {r \in comments : r.post # obj.id}]

PostDestroy(u, pk) ==
    LET o == PostDestroyResult(u, pk)
    IN  /\ resp' = o.resp
        /\ posts' = o.posts
        /\ likes' = o.likes
        /\ comments' = o.comments
        /\ UNCHANGED <<postSeq, follows, followSeq, likeSeq, commentSeq, pending,
                     scheduleVars, accountVars>>

\* PostViewSet.get_queryset: my_posts, else following, which reads the
\* following relation of the requester's profile
PostGetQueryset(u, my_posts, following) ==
    IF u = None THEN {}
    ELSE IF my_posts THEN {p \in posts : p.author = u}
    ELSE IF following
      THEN IF u \in DOMAIN profileFollowing
             THEN {p \in posts : p.author \in profileFollowing[u]}
           ELSE {}
    ELSE posts

\* PostViewSet.list: reads only
PostList(u, my_posts, following) ==
    DataResponse("post_list", {p.id : p \in PostGetQueryset(u, my_posts, following)})

\* ------------------------------------------------------- authentication
\* the views and the HTTP methods a request may use on them
Views == {"posts", "follows", "likes", "comments", "profile", "me", "logout", "register", "login"}

Methods == SAFE_METHODS \cup {"POST", "PUT", "PATCH", "DELETE"}

ViewPermissionClassesAllowAny(view, method) == <<"AllowAny">>

\* permission_classes / get_permissions of each view
ViewPermissionClasses(view, method) ==
    IF view = "posts" THEN PostPermissionClasses
    ELSE IF view \in {"follows", "likes"}
      THEN IF method = "DELETE" THEN <<"IsAuthenticated", "IsOwnerOrReadOnly">>
           ELSE <<"IsAuthenticated">>
    ELSE IF view = "profile" THEN <<"IsAuthenticated", "IsOwnerOrReadOnly">>
    ELSE IF view \in {"comments", "me", "logout"} THEN <<"IsAuthenticated">>
    ELSE <<"AllowAny">>

\* has_permission of a permission class for requester u (None: no credentials);
\* the object-level classes keep BasePermission's has_permission
HasPermission(class, u) ==
    IF class = "IsAuthenticated" THEN u # None ELSE TRUE

\* the WWW-Authenticate header of the first authentication class (JWT)
AuthenticateHeader == "Bearer"

\* APIView.initial: check_permissions, and what permission_denied answers;
\* a request that passes goes on to its handler
InitialResult(view, method, u) ==
    LET classes == ViewPermissionClasses(view, method)
    IN  IF \A i \in DOMAIN classes : HasPermission(classes[i], u) THEN InProgress(view)
        ELSE IF u # None THEN Denied(view)
        \* NotAuthenticated: 401 when there is a header to send, else 403
        ELSE IF AuthenticateHeader # ""
          THEN Response(view, 401, "Authentication credentials were not provided.")
        ELSE Response(view, 403, "Authentication credentials were not provided.")

\* a request without credentials; a refused one never reaches a handler
AnonymousRequest(view, method) ==
    /\ resp' = InitialResult(view, method, None)
    /\ resp'.status # 0
    /\ UNCHANGED <<posts, postSeq, follows, likes, comments, followSeq, likeSeq, commentSeq,
                   pending, scheduleVars, accountVars>>

\* ------------------------------------------------ posts: create, schedule
\* "CHECK: minimum delay": a post less than this many seconds ahead is not deferred
MinDelaySeconds == 5

\* the offset of settings.TIME_ZONE from UTC, as in the help text of scheduled_at
\* ('2025-07-11T01:45:00' local is '2025-07-10T22:45:00Z')
LocalUtcOffsetSeconds == 3 * 3600

\* the clock stops after the shortest deferral has elapsed
MaxTime == (MinDelaySeconds + 1) * TicksPerSecond

\* a datetime without tzinfo
Naive == "naive"

\* scheduled_at of a request body: the key absent, null, or a datetime given
\* as wall-clock ticks with its UTC offset in ticks (or Naive)
NoSchedule(given) == [given |-> given, wall |-> 0, off |-> "none"]

\* the instant t (ticks, UTC) written as a datetime in one of three ways
ScheduledAt(t, repr) ==
    IF repr = "utc" THEN [given |-> "value", wall |-> t, off |-> "0"]
    ELSE IF repr = "local"
      THEN [given |-> "value", wall |-> t + LocalUtcOffsetSeconds * TicksPerSecond, off |-> "local"]
    ELSE [given |-> "value", wall |-> t + LocalUtcOffsetSeconds * TicksPerSecond, off |-> Naive]

Reprs == {"utc", "local", "naive"}

\* distances of scheduled_at from the current time, in ticks: past, now, the
\* ticks around the minimum delay, and one minute ahead
ScheduleOffsets ==
    {-1, 0, 1, MinDelaySeconds * TicksPerSecond - 1, MinDelaySeconds * TicksPerSecond,
     MinDelaySeconds * TicksPerSecond + 1, 60 * TicksPerSecond}

\* local_tz.localize of a naive datetime, then astimezone(pytz.UTC)
ScheduledAtUtc(sched) ==
    LET offset == IF sched.off = "0" THEN 0 ELSE LocalUtcOffsetSeconds * TicksPerSecond
    IN  sched.wall - offset

\* max(1, int(delay_seconds)), delay being ticks
Countdown(delay) ==
    LET seconds == delay \div TicksPerSecond
    IN  IF seconds > 1 THEN seconds ELSE 1

\* PostSerializer.to_representation of what create returned: a Post row
\* serializes; the dict of the scheduled branch carries the author's username
\* under "author", and the primary-key field reads .pk of it
PostSerializerData(instance) ==
    IF instance = "Post" THEN "ok" ELSE "AttributeError"

IsDeferredNever(sched) == FALSE

IsDeferredWithoutMinimum(sched) == sched.given = "value" /\ ScheduledAtUtc(sched) > now

IsDeferredAlways(sched) == TRUE

\* the branches of PostSerializer.create: does it hand the post to the worker
IsDeferred(sched) ==
    \* if scheduled_at:
    /\ sched.given = "value"
    \* if scheduled_at_utc > now_utc: ... else "Scheduled time in the past"
    /\ ScheduledAtUtc(sched) > now
    \* if delay_seconds < 5: "create a post now"
    /\ ~(ScheduledAtUtc(sched) - now < MinDelaySeconds * TicksPerSecond)

\* PostViewSet.create: is_valid, perform_create (PostSerializer.create), then
\* Response(serializer.data, status=201)
PostCreateResult(u, body_content, sched) ==
    LET op == "post_create"
        same(r) == [resp |-> r, posts |-> posts, postSeq |-> postSeq,
                    tasks |-> tasks, taskSeq |-> taskSeq]
        delay == ScheduledAtUtc(sched) - now
        \* apply_async(args=[author.id, content, image_path], countdown=...)
        task == [id |-> taskSeq, author_id |-> u, content |-> body_content,
                 eta |-> now + Countdown(delay) * TicksPerSecond]
    IN  IF body_content = Absent THEN same(Response(op, 400, "This field is required."))
        ELSE IF body_content = "" THEN same(Response(op, 400, "This field may not be blank."))
        ELSE IF IsDeferred(sched)
          \* return {"detail": ..., "status": "scheduled", ...}
          THEN [resp |-> IF PostSerializerData("dict") = "ok"
                           THEN Response(op, 201, "The publication has been successfully scheduled.")
                           ELSE Raised(op, PostSerializerData("dict")),
                posts |-> posts, postSeq |-> postSeq,
                tasks |-> tasks \cup {task}, taskSeq |-> taskSeq + 1]
        \* Post.objects.create(author=author, content=validated_data["content"])
        ELSE [resp |-> Response(op, 201, ""),
              posts |-> posts \cup {[id |-> postSeq, author |-> u, content |-> body_content]},
              postSeq |-> postSeq + 1, tasks |-> tasks, taskSeq |-> taskSeq]

PostCreate(u, body_content, sched) ==
    LET o == PostCreateResult(u, body_content, sched)
    \* a queued task holds the id of the row it will create
    IN  /\ postSeq + Cardinality(tasks) <= MaxRowId
        /\ resp' = o.resp
        /\ posts' = o.posts
        /\ postSeq' = o.postSeq
        /\ tasks' = o.tasks
        /\ taskSeq' = o.taskSeq
        /\ UNCHANGED <<now, follows, likes, comments, followSeq, likeSeq, commentSeq, pending,
                       accountVars>>

\* the clock advances by one tick
Tick ==
    /\ now < MaxTime
    /\ now' = now + 1
    /\ UNCHANGED <<posts, postSeq, follows, likes, comments, followSeq, likeSeq, commentSeq,
                   pending, resp, tasks, taskSeq, accountVars>>

CreateScheduledPostResultTwice(t) ==
    [resp |-> Response("create_scheduled_post", 0, "success"),
     posts |-> posts \cup {[id |-> postSeq + i, author |-> t.author_id, content |-> t.content] :
                              i \in {0, 1}},
     postSeq |-> postSeq + 2]

CreateScheduledPostResultUnchecked(t) ==
    [resp |-> Response("create_scheduled_post", 0, "success"),
     posts |-> posts \cup {[id |-> postSeq, author |-> t.author_id, content |-> t.content]},
     postSeq |-> postSeq + 1]

\* tasks.create_scheduled_post(author_id, content, image_path=None)
CreateScheduledPostResult(t) ==
    IF ~\E r \in userRows : r.id = t.author_id
      \* User.DoesNotExist, raised again as Exception
      THEN [resp |-> Raised("create_scheduled_post", "Exception"),
            posts |-> posts, postSeq |-> postSeq]
    ELSE [resp |-> Response("create_scheduled_post", 0, "success"),
          posts |-> posts \cup {[id |-> postSeq, author |-> t.author_id, content |-> t.content]},
          postSeq |-> postSeq + 1]

\* the worker takes a task whose countdown has elapsed and runs it
CreateScheduledPost(t) ==
    LET o == CreateScheduledPostResult(t)
    IN  /\ t \in tasks
        /\ now >= t.eta
        /\ postSeq <= MaxRowId
        /\ resp' = o.resp
        /\ posts' = o.posts
        /\ postSeq' = o.postSeq
        /\ tasks' = tasks \ {t}
        /\ UNCHANGED <<now, taskSeq, follows, likes, comments, followSeq, likeSeq, commentSeq,
                       pending, accountVars>>

\* --------------------------------------------------------------- accounts
\* the addresses a request may carry: the one of user 1 and a new one, each
\* with the domain written in lower case and with a capital
Locals == {ToString(1), "n"}
Domains == {"x.com", "X.com"}
Emails == {Email(l, d) : l \in Locals, d \in Domains}
\* the email key missing from the body
NoEmail == Email("", "")
\* the username key of a registration: a name in use and a free one
BodyUsernames == {Email(ToString(1), ""), Email("new", "")}

\* str.lower on a domain
Lower(domain) == IF domain = "X.com" THEN "x.com" ELSE domain

\* BaseUserManager.normalize_email: the domain part in lower case
NormalizeEmail(email) == Email(email.local, Lower(email.domain))

\* User.save: the unique indexes on email and on username
UserUniqueViolated(rows, row) ==
    \E r \in rows : r.id # row.id /\ (r.email = row.email \/ r.username = row.username)

\* CustomUserManager.create_user with the username create() has set
CreateUserRow(email, username) ==
    [id |-> userSeq, email |-> NormalizeEmail(email), username |-> username]

\* POST /register/: field validation (username unique), validate() (passwords,
\* email in use), create() with username := email, then the profile of the signal
RegisterResult(body_username, email, passwords_match) ==
    LET same(r) == [resp |-> r, userRows |-> userRows, userSeq |-> userSeq,
                    profileFollowing |-> profileFollowing]
        row == CreateUserRow(email, email)
    IN  IF \E r \in userRows : r.username = body_username
          THEN same(Response("register", 400, "A user with that username already exists."))
        ELSE IF ~passwords_match
          THEN same(Response("register", 400, "Passwords don't match"))
        ELSE IF \E r \in userRows : r.email = email
          THEN same(Response("register", 400, "A user with this email already exists."))
        ELSE IF UserUniqueViolated(userRows, row)
          THEN same(Raised("register", "IntegrityError"))
        ELSE [resp |-> Response("register", 201, "The user has been successfully registered."),
              userRows |-> userRows \cup {row},
              userSeq |-> userSeq + 1,
              profileFollowing |->
                  [u \in DOMAIN profileFollowing \cup {row.id} |->
                      IF u \in DOMAIN profileFollowing THEN profileFollowing[u] ELSE {}]]

Register(body_username, email, passwords_match) ==
    LET o == RegisterResult(body_username, email, passwords_match)
    IN  /\ userSeq <= NumUsers + MaxNewUsers
        /\ resp' = o.resp
        /\ userRows' = o.userRows
        /\ userSeq' = o.userSeq
        /\ profileFollowing' = o.profileFollowing
        /\ UNCHANGED <<posts, follows, likes, comments, postSeq, followSeq, likeSeq, commentSeq,
                       pending, scheduleVars>>

\* PUT/PATCH /me/ by user u: the email field with its UniqueValidator, then
\* validate_email, then ModelSerializer.update, which stores the value as given
UserUpdateResult(u, email, partial) ==
    LET same(r) == [resp |-> r, userRows |-> userRows]
        instance == CHOOSE r \in userRows : r.id = u
        row == [instance EXCEPT !.email = email]
    IN  IF email = NoEmail
          THEN IF partial THEN same(Response("me", 200, ""))
               ELSE same(Response("me", 400, "This field is required."))
        ELSE IF \E r \in userRows : r.id # u /\ r.email = email
          THEN same(Response("me", 400, "user with this email address already exists."))
        ELSE IF instance.email # email /\ \E r \in userRows : r.email = email
          THEN same(Response("me", 400, "This email is already in use by another user."))
        ELSE IF \E r \in userRows : r.id # u /\ r.email = row.email
          THEN same(Raised("me", "IntegrityError"))
        ELSE [resp |-> Response("me", 200, ""),
              userRows |-> (userRows \ {instance}) \cup {row}]

UserUpdate(u, email, partial) ==
    LET o == UserUpdateResult(u, email, partial)
    IN  /\ \E r \in userRows : r.id = u
        /\ resp' = o.resp
        /\ userRows' = o.userRows
        /\ UNCHANGED <<posts, follows, likes, comments, postSeq, followSeq, likeSeq, commentSeq,
                       pending, scheduleVars, userSeq, profileFollowing>>

\* the ids a request may carry for a user or a profile
UserPks == 1..(NumUsers + MaxNewUsers)

\* DestroyModelMixin.destroy, which the viewset overrides: get_object (404,
\* then the object permission of IsOwnerOrReadOnly) and the DELETE of the row
ProfileDestroyResultInherited(u, pk, is_admin) ==
    IF pk \notin DOMAIN profileFollowing
      THEN [resp |-> NotFound("profile"), profileFollowing |-> profileFollowing]
    ELSE IF pk # u
      THEN [resp |-> Denied("profile"), profileFollowing |-> profileFollowing]
    ELSE [resp |-> Response("profile", 204, ""),
          profileFollowing |-> [q \in DOMAIN profileFollowing \ {pk} |-> profileFollowing[q]]]

\* DELETE /profile/<pk>/ by user u, staff and superuser or not: destroy answers
\* without looking the profile up
ProfileDestroyResult(u, pk, is_admin) ==
    LET initial == InitialResult("profile", "DELETE", u)
    IN  IF initial.status # 0
          THEN [resp |-> initial, profileFollowing |-> profileFollowing]
        ELSE [resp |-> Response("profile", 405,
                  "Deletion of user profiles is not allowed via this API endpoint."),
              profileFollowing |-> profileFollowing]

ProfileDestroy(u, pk, is_admin) ==
    LET o == ProfileDestroyResult(u, pk, is_admin)
    IN  /\ \E r \in userRows : r.id = u
        /\ resp' = o.resp
        /\ profileFollowing' = o.profileFollowing
        /\ UNCHANGED <<posts, follows, likes, comments, postSeq, followSeq, likeSeq, commentSeq,
                       pending, scheduleVars, userRows, userSeq>>

\* ------------------------------------------------------ deletion of a user
UserDeleteResultWithoutCascade(u) ==
    [resp |-> Response("User.delete", 0, ""),
     userRows |-> {r \in userRows : r.id # u},
     posts |-> posts, likes |-> likes, comments |-> comments, follows |-> follows,
     profileFollowing |-> profileFollowing]

\* Model.delete on a User row (admin, shell): every foreign key to User and to
\* Post is on_delete=CASCADE, so the rows that refer to the user go with it:
\* the profile with its following relation, the posts with their likes and
\* comments, the user's likes and comments, the follows on either side
UserDeleteResult(u) ==
    LET gone == {p.id : p \in {q \in posts : q.author = u}}
    IN  [resp |-> Response("User.delete", 0, ""),
         userRows |-> {r \in userRows : r.id # u},
         posts |-> {p \in posts : p.author # u},
         likes |-> {r \in likes : r.user # u /\ r.post \notin gone},
         comments |-> {r \in comments : r.user # u /\ r.post \notin gone},
         follows |-> {r \in follows : r.follower # u /\ r.following # u},
         profileFollowing |->
             [q \in DOMAIN profileFollowing \ {u} |-> profileFollowing[q] \ {u}]]

\* the task queue is no table of the database: queued tasks stay
UserDelete(u) ==
    LET o == UserDeleteResult(u)
    IN  /\ UserExists(u)
        /\ resp' = o.resp
        /\ userRows' = o.userRows
        /\ posts' = o.posts
        /\ likes' = o.likes
        /\ comments' = o.comments
        /\ follows' = o.follows
        /\ profileFollowing' = o.profileFollowing
        /\ UNCHANGED <<postSeq, followSeq, likeSeq, commentSeq, pending, scheduleVars, userSeq>>

\* ------------------------------------------------------------------- init
Init ==
    /\ posts = InitialPosts
    /\ postSeq = NumPosts + 1
    /\ follows = {}
    /\ likes = {}
    /\ comments = {}
    /\ followSeq = 1
    /\ likeSeq = 1
    /\ commentSeq = 1
    /\ pending = [s \in 1..MaxInflight |-> NoRequest]
    /\ resp = NoResponse
    /\ now = 0
    /\ tasks = {}
    /\ taskSeq = 1
    /\ userRows = InitialUsers
    /\ userSeq = NumUsers + 1
    /\ profileFollowing = [u \in Users |-> {}]

NextLike ==
    \/ \E s \in 1..MaxInflight, u \in Users, p \in BodyPosts : LikeCreateCheck(s, u, p)
    \/ \E s \in 1..MaxInflight : LikeCreateSave(s)
    \/ \E u \in Users, pk \in RowPks : LikeDestroy(u, pk)

SpecLike == Init /\ [][NextLike]_vars

NextFollow ==
    \/ \E f \in Users, g \in Users : FollowObjectsCreate(f, g)
    \/ \E u \in Users, bf \in BodyUsers, bg \in BodyUsers : FollowCreate(u, bf, bg)
    \/ \E u \in Users, pk \in RowPks : FollowDestroy(u, pk)
    \/ \E u \in Users, pk \in 1..(NumUsers + 1), swapped \in AuthUserSwapped :
          Unfollow(u, pk, swapped)

SpecFollow == Init /\ [][NextFollow]_vars

NextComment ==
    \/ \E u \in Users, p \in BodyPosts, c \in Contents \cup {""} : CommentCreate(u, p, c)
    \/ \E u \in Users, pk \in CommentPks, p \in BodyPosts,
          c \in Contents \cup {"", Absent}, partial \in BOOLEAN : CommentUpdate(u, pk, p, c, partial)
    \/ \E u \in Users, pk \in CommentPks : CommentDestroy(u, pk)

SpecComment == Init /\ [][NextComment]_vars

NextPost ==
    \/ \E a \in Users, c \in Contents : PostObjectsCreate(a, c)
    \/ \E u \in Users, pk \in RowPks, c \in Contents \cup {"", Absent}, partial \in BOOLEAN :
          PostUpdate(u, pk, c, partial)
    \/ \E u \in Users, pk \in RowPks : PostDestroy(u, pk)
    \/ \E view \in Views, method \in Methods : AnonymousRequest(view, method)

SpecPost == Init /\ [][NextPost]_vars

\* a request comes from a user who exists
NextSchedule ==
    \/ \E u \in Users, c \in Contents \cup {"", Absent}, given \in {"absent", "null"} :
          UserExists(u) /\ PostCreate(u, c, NoSchedule(given))
    \/ \E u \in Users, c \in Contents \cup {"", Absent}, k \in ScheduleOffsets, repr \in Reprs :
          UserExists(u) /\ PostCreate(u, c, ScheduledAt(now + k, repr))
    \/ Tick
    \/ \E t \in tasks : CreateScheduledPost(t)
    \/ \E u \in Users : UserDelete(u)

SpecSchedule == Init /\ [][NextSchedule]_vars

\* rows are created by users who exist and rows and users are deleted; a
\* like-create may be between its check and its INSERT meanwhile
NextCascade ==
    \/ \E u \in Users, p \in PostPks : UserExists(u) /\ LikeCreateCheck(1, u, p)
    \/ LikeCreateSave(1)
    \/ \E u \in Users, p \in PostPks : UserExists(u) /\ CommentCreate(u, p, "a")
    \/ \E u \in Users, pk \in CommentPks, p \in PostPks :
          UserExists(u) /\ CommentUpdate(u, pk, p, Absent, TRUE)
    \/ \E f \in Users, g \in Users : UserExists(f) /\ UserExists(g) /\ FollowObjectsCreate(f, g)
    \/ \E u \in Users, pk \in RowPks : UserExists(u) /\ PostDestroy(u, pk)
    \/ \E u \in Users : UserDelete(u)

SpecCascade == Init /\ [][NextCascade]_vars

\* the ids apply_async can give out: a task either becomes a post or fails
\* for an author who was deleted
TaskIds == 1..(NumUsers + MaxRowId - NumPosts)

\* the worker picks up the task with this id
WorkerRuns(id) == \E t \in tasks : t.id = id /\ CreateScheduledPost(t)

\* time passes, and the worker runs every task that is due
SpecScheduleFair ==
    /\ SpecSchedule
    /\ WF_vars(Tick)
    /\ \A id \in TaskIds : WF_vars(WorkerRuns(id))

NextUser ==
    \/ \E n \in BodyUsernames, e \in Emails, m \in BOOLEAN : Register(n, e, m)
    \/ \E u \in 1..(NumUsers + MaxNewUsers), e \in Emails \cup {NoEmail}, partial \in BOOLEAN :
          UserUpdate(u, e, partial)
    \/ \E u \in UserPks, pk \in UserPks, is_admin \in BOOLEAN : ProfileDestroy(u, pk, is_admin)

SpecUser == Init /\ [][NextUser]_vars

\* ================================================================= claims
HasLiked(u, p) == \E r \in likes : r.user = u /\ r.post = p
HasCommented(u, p) == \E r \in comments : r.user = u /\ r.post = p
Follows(f, g) == \E r \in follows : r.follower = f /\ r.following = g

\* C1: whatever like-create and like-destroy requests ran, and however the
\* check and the INSERT of concurrent like-creates interleaved, no (user,
\* post) pair has more than one Like row.
C1_OneLikePerUserPost ==
    \A u \in Users, p \in PostPks :
        Cardinality({r \in likes : r.user = u /\ r.post = p}) <= 1

\* a like-create that passed its check lost the race and was stopped by the
\* database constraint, the winner's row being in the table
C1_Witness ==
    /\ resp.op = "like_create"
    /\ resp.exc = "IntegrityError"
    /\ \E u \in Users, p \in PostPks : HasLiked(u, p)

\* C2: no (follower, following) pair ever has more than one Follow row, and
\* in every reachable state an attempt to create a row for a pair that has
\* one (Follow.objects.create, or a follow-create request by that follower
\* or naming that pair) fails and leaves the Follow rows as they are.
C2_OneFollowPerPair ==
    /\ \A f \in Users, g \in Users :
          Cardinality({r \in follows : r.follower = f /\ r.following = g}) <= 1
    /\ \A f \in Users, g \in Users :
          Follows(f, g)
              => /\ FollowObjectsCreateResult(f, g).resp.exc = "IntegrityError"
                 /\ FollowObjectsCreateResult(f, g).follows = follows
    /\ \A u \in Users, bf \in BodyUsers, bg \in Users :
          (Follows(u, bg) \/ (bf # None /\ Follows(bf, bg)))
              => /\ FollowCreateResult(u, bf, bg).resp.status >= 400
                 /\ FollowCreateResult(u, bf, bg).follows = follows

\* the second Follow.objects.create for a pair was refused, its first row kept
C2_Witness ==
    /\ resp.op = "Follow.objects.create"
    /\ resp.exc = "IntegrityError"
    /\ follows # {}

\* C3: no (user, post) pair ever has more than one Comment row, also after
\* updates that move a comment to another post, and in every reachable state
\* a comment-create by a user who already commented on the post answers 400
\* and adds no row.
C3_OneCommentPerUserPost ==
    /\ \A u \in Users, p \in PostPks :
          Cardinality({r \in comments : r.user = u /\ r.post = p}) <= 1
    /\ \A u \in Users, p \in PostPks, c \in Contents \cup {""} :
          HasCommented(u, p)
              => /\ CommentCreateResult(u, p, c).resp.status = 400
                 /\ CommentCreateResult(u, p, c).comments = comments

\* an update that would move a comment onto a post its author already
\* commented on was stopped, both comments still in place
C3_Witness ==
    /\ resp.op \in {"comment_update", "comment_partial_update"}
    /\ resp.exc = "IntegrityError"
    /\ Cardinality(comments) = 2

\* C4: a follow-create request naming the requester as 'following' answers 400
\* "You cannot follow yourself." and creates nothing, whatever user the body
\* names as 'follower'.
C4_SelfFollowRejected ==
    [][\A u \in Users, bf \in Users :
          FollowCreate(u, bf, u)
              => /\ resp'.status = 400
                 /\ resp'.detail = "You cannot follow yourself."
                 /\ follows' = follows]_vars

\* C5: a follow-create request by u naming another user v whom u does not
\* follow answers 201 and adds exactly the row (follower = u, following = v).
C5_FollowCreateSucceeds ==
    [][\A u \in Users, v \in Users :
          (FollowCreate(u, u, v) /\ v # u /\ ~Follows(u, v))
              => /\ resp'.status = 201
                 /\ \E r \in follows' \ follows :
                       /\ r.follower = u
                       /\ r.following = v
                       /\ follows' = follows \cup {r}]_vars

\* C6: DELETE of a Follow row by its follower answers 204 and removes the row;
\* DELETE by any other user answers 403 and leaves the row in place.
C6_FollowDeleteOnlyByFollower ==
    [][\A u \in Users, pk \in RowPks :
          FollowDestroy(u, pk)
              => \A r \in GetObject(follows, pk) :
                    /\ r.follower = u => (resp'.status = 204 /\ follows' = follows \ {r})
                    /\ r.follower # u => (resp'.status = 403 /\ follows' = follows)]_vars

\* C7: in every reachable state, DELETE of a Like row by its user answers 204
\* and removes exactly that row, and DELETE by any other user answers 403 and
\* leaves every Like row as it is; no step removes a Like row except the
\* DELETE of that row by its own user.
C7_LikeDeleteOnlyByOwner ==
    /\ [](\A r \in likes, u \in Users :
            /\ r.user = u
                  => /\ LikeDestroyResult(u, r.id).resp.status = 204
                     /\ LikeDestroyResult(u, r.id).likes = likes \ {r}
            /\ r.user # u
                  => /\ LikeDestroyResult(u, r.id).resp.status = 403
                     /\ LikeDestroyResult(u, r.id).likes = likes)
    /\ [][\A r \in likes \ likes' :
            /\ LikeDestroy(r.user, r.id)
            /\ resp'.status = 204]_vars

\* a DELETE by a user who is not the like's user was refused, the like kept
C7_Witness ==
    /\ resp.op = "like_destroy"
    /\ resp.status = 403
    /\ likes # {}

\* C8: in every reachable state, PUT, PATCH and DELETE of a comment by a user
\* who is not its author answer 403 and leave every comment as it is, whatever
\* the body, while every user can retrieve the comment and finds it in the
\* unfiltered list.
C8_CommentWriteOnlyByAuthor ==
    \A r \in comments, u \in Users :
        /\ r.user # u
              => /\ \A p \in BodyPosts, c \in Contents \cup {"", Absent}, partial \in BOOLEAN :
                       /\ CommentUpdateResult(u, r.id, p, c, partial).resp.status = 403
                       /\ CommentUpdateResult(u, r.id, p, c, partial).comments = comments
                 /\ CommentDestroyResult(u, r.id).resp.status = 403
                 /\ CommentDestroyResult(u, r.id).comments = comments
        /\ CommentRetrieve(u, r.id).status = 200
        /\ CommentRetrieve(u, r.id).data = {r.id}
        /\ CommentList(u, None, FALSE, FALSE).status = 200
        /\ r.id \in CommentList(u, None, FALSE, FALSE).data

\* a PUT by a user who is not the comment's author was refused
C8_Witness ==
    /\ resp.op = "comment_update"
    /\ resp.status = 403
    /\ comments # {}

\* C9: in every reachable state, PUT/PATCH with content and DELETE of a post
\* by its author answer 200 and 204 and change or remove the row; by any other
\* user they answer 403 and leave the posts as they are.
C9_PostWriteOnlyByAuthor ==
    \A r \in posts, u \in Users :
        /\ r.author = u
              => /\ \A c \in Contents, partial \in BOOLEAN :
                       /\ PostUpdateResult(u, r.id, c, partial).resp.status = 200
                       /\ PostUpdateResult(u, r.id, c, partial).posts
                             = (posts \ {r}) \cup {[r EXCEPT !.content = c]}
                 /\ PostDestroyResult(u, r.id).resp.status = 204
                 /\ PostDestroyResult(u, r.id).posts = posts \ {r}
        /\ r.author # u
              => /\ \A c \in Contents \cup {"", Absent}, partial \in BOOLEAN :
                       /\ PostUpdateResult(u, r.id, c, partial).resp.status = 403
                       /\ PostUpdateResult(u, r.id, c, partial).posts = posts
                 /\ PostDestroyResult(u, r.id).resp.status = 403
                 /\ PostDestroyResult(u, r.id).posts = posts

\* an author has changed a post's content, and a DELETE by a user who is not
\* the author was refused
C9_Witness ==
    /\ resp.op = "post_destroy"
    /\ resp.status = 403
    /\ \E p \in posts : p.content = "b"

\* C10: in every reachable state, a like-create request for a post the
\* requester already likes answers 400 "You have already liked this post."
\* and one without a post id answers 400 "Post ID is required."; neither
\* starts an INSERT, and no like-create answered with 400 adds a Like row.
C10_LikeCreateErrors ==
    /\ [](\A s \in 1..MaxInflight, u \in Users :
            /\ LikeCreateCheckResult(s, u, None).resp
                  = Response("like_create", 400, "Post ID is required.")
            /\ LikeCreateCheckResult(s, u, None).pending = pending
            /\ \A p \in PostPks :
                  HasLiked(u, p)
                      => /\ LikeCreateCheckResult(s, u, p).resp
                               = Response("like_create", 400, "You have already liked this post.")
                         /\ LikeCreateCheckResult(s, u, p).pending = pending)
    /\ [][(resp'.op = "like_create" /\ resp'.status = 400) => likes' = likes]_vars

\* a repeated like was refused, the first like still in the table
C10_Witness ==
    /\ resp.op = "like_create"
    /\ resp.status = 400
    /\ resp.detail = "You have already liked this post."
    /\ likes # {}

\* C11: a like-create request naming a post id that does not exist answers
\* 404 "Post not found" and adds no Like row nor starts an INSERT (the
\* comment-create handler has the same lookup and the same except clause).
C11_MissingPostNotFound ==
    [][\A s \in 1..MaxInflight, u \in Users, p \in PostPks :
          (LikeCreateCheck(s, u, p) /\ ~PostExists(p))
              => /\ resp'.status = 404
                 /\ resp'.detail = "Post not found"
                 /\ likes' = likes
                 /\ pending' = pending]_vars

\* C12: a post-create request with content and scheduled_at one minute ahead
\* answers 202 with detail "The publication has been successfully scheduled.".
C12_ScheduledCreateAccepted ==
    [][\A u \in Users, c \in Contents, repr \in Reprs :
          PostCreate(u, c, ScheduledAt(now + 60 * TicksPerSecond, repr))
              => /\ resp'.status = 202
                 /\ resp'.detail = "The publication has been successfully scheduled."]_vars

\* C13: in every reachable state a post-create with content whose scheduled_at
\* is at least 5 seconds ahead adds no Post row and enqueues exactly one task,
\* carrying the requester's id and the content; and the step that runs a task
\* adds the Post row of that task's author and content and takes the task
\* from the queue.
C13_DeferredToOneTask ==
    /\ [](\A u \in Users, c \in Contents, k \in ScheduleOffsets, repr \in Reprs :
            k >= 5 * TicksPerSecond
                => LET o == PostCreateResult(u, c, ScheduledAt(now + k, repr))
                   IN  /\ o.posts = posts
                       /\ \E t \in o.tasks \ tasks :
                             /\ o.tasks = tasks \cup {t}
                             /\ t.author_id = u
                             /\ t.content = c
                             /\ t.eta >= now + 5 * TicksPerSecond)
    /\ [][\A t \in tasks :
            (CreateScheduledPost(t) /\ UserExists(t.author_id))
                => /\ now >= t.eta
                   /\ tasks' = tasks \ {t}
                   /\ \E p \in posts' \ posts :
                         /\ posts' = posts \cup {p}
                         /\ p.author = t.author_id
                         /\ p.content = t.content]_vars

\* the worker has run a deferred post's task and the Post row is there
C13_Witness ==
    /\ resp.op = "create_scheduled_post"
    /\ resp.detail = "success"
    /\ \E p \in posts : p.id > NumPosts
    /\ taskSeq > 1

C15_ImmediateCreate ==
    \A u \in Users, c \in Contents :
        \A sched \in {NoSchedule("absent"), NoSchedule("null")}
                     \cup {ScheduledAt(now + k, repr) : k \in {-1, 0}, repr \in Reprs} :
            LET o == PostCreateResult(u, c, sched)
                row == [id |-> postSeq, author |-> u, content |-> c]
            IN  /\ o.resp.status = 201
                /\ row \notin posts
                /\ o.posts = posts \cup {row}
                /\ o.tasks = tasks

\* a post was created during its request while nothing is queued
C15_Witness ==
    /\ resp.op = "post_create"
    /\ resp.status = 201
    /\ tasks = {}
    /\ \E p \in posts : p.id > NumPosts /\ p.content = "b"

\* C16: a request without credentials to the posts view (post-create among
\* them) or to a follows, likes, comments, profile or current-user endpoint,
\* with any method, answers 401 and leaves every stored row as it was.
C16_UnauthenticatedRefused ==
    /\ [](\A view \in {"posts", "follows", "likes", "comments", "profile", "me"},
             method \in Methods :
               InitialResult(view, method, None).status = 401)
    /\ [][\A view \in {"posts", "follows", "likes", "comments", "profile", "me"},
             method \in Methods :
               AnonymousRequest(view, method)
                   => /\ resp' = InitialResult(view, method, None)
                      /\ UNCHANGED <<posts, follows, likes, comments, tasks, userRows,
                                     profileFollowing>>]_vars

\* a post exists whose content an author changed, and a request without
\* credentials to the posts view was then refused
C16_Witness ==
    /\ resp.op = "posts"
    /\ resp.status = 401
    /\ \E p \in posts : p.content = "b"

\* C17: for every user u, the post list with following=true holds exactly the
\* posts whose author u follows.
C17_FollowingListsFollowedAuthors ==
    \A u \in Users :
        PostList(u, FALSE, TRUE).data = {p.id : p \in {q \in posts : Follows(u, q.author)}}

\* C18: the comment list with my_comments=true holds only comments of the
\* requester, and the like list with my_like=true only likes of the requester.
C18_OwnRowsOnly ==
    \A u \in Users :
        /\ \A r \in comments :
              r.id \in CommentList(u, None, FALSE, TRUE).data => r.user = u
        /\ \A r \in likes :
              r.id \in LikeList(u, None, TRUE).data => r.user = u

\* C19: unfollow by u of target id t answers 404 when no user t exists and 400
\* "You are not following this user." when u does not follow t, changing no
\* Follow row; otherwise it answers 204 and removes exactly the row (u, t).
C19_UnfollowRemovesOneRow ==
    [][\A u \in Users, t \in 1..(NumUsers + 1), swapped \in AuthUserSwapped :
          Unfollow(u, t, swapped)
              => IF t \notin Users
                   THEN resp'.status = 404 /\ follows' = follows
                 ELSE IF ~Follows(u, t)
                   THEN /\ resp'.status = 400
                        /\ resp'.detail = "You are not following this user."
                        /\ follows' = follows
                 ELSE /\ resp'.status = 204
                      /\ follows' = {r \in follows : ~(r.follower = u /\ r.following = t)}]_vars

\* C20: no two users have the same email; a registration with an email that a
\* user already has is answered 400 and creates no user, and so is an update
\* of one's email to that of another user, which changes no user.
C20_EmailInUseRejected ==
    /\ [](\A r1 \in userRows, r2 \in userRows : r1.email = r2.email => r1.id = r2.id)
    /\ [][\A n \in BodyUsernames, e \in Emails, m \in BOOLEAN :
            (Register(n, e, m) /\ \E r \in userRows : r.email = NormalizeEmail(e))
                => resp'.status = 400 /\ userRows' = userRows]_vars
    /\ [][\A u \in 1..(NumUsers + MaxNewUsers), e \in Emails, partial \in BOOLEAN :
            (UserUpdate(u, e, partial) /\ \E r \in userRows : r.id # u /\ r.email = e)
                => resp'.status = 400 /\ userRows' = userRows]_vars

C22_TaskCreatesOnePostOrFails ==
    /\ [](\A t \in tasks :
            LET o == CreateScheduledPostResult(t)
            IN  IF UserExists(t.author_id)
                  THEN /\ o.resp.detail = "success"
                       /\ \E p \in o.posts \ posts :
                             /\ o.posts = posts \cup {p}
                             /\ p.author = t.author_id
                             /\ p.content = t.content
                ELSE /\ o.resp.status = 500
                     /\ o.resp.exc = "Exception"
                     /\ o.posts = posts)
    /\ [][\A t \in tasks :
            CreateScheduledPost(t)
                => /\ resp' = CreateScheduledPostResult(t).resp
                   /\ posts' = CreateScheduledPostResult(t).posts
                   /\ UNCHANGED <<follows, likes, comments, userRows, profileFollowing>>]_vars

\* the author of a deferred post was deleted, and the task has run and failed
C22_Witness ==
    /\ resp.op = "create_scheduled_post"
    /\ resp.exc = "Exception"
    /\ Cardinality(userRows) < NumUsers
    /\ taskSeq > 1

\* C23: every task a deferred request has enqueued (and that is due within
\* the clock of the model) is eventually run; a run for an author who exists
\* adds exactly one Post with the task's author and content and takes the
\* task off the queue for good; and a Post is only ever added by the
\* immediate branch of a request or by the run of a task.
C23_DeferredPostEventuallyCreated ==
    /\ \A id \in TaskIds :
          (\E t \in tasks : t.id = id /\ t.eta <= MaxTime)
              ~> (/\ ~\E t \in tasks : t.id = id
                  /\ resp.op = "create_scheduled_post")
    /\ [](\A t \in tasks : t.id \in TaskIds /\ t.id < taskSeq)
    /\ [][\A t \in tasks :
            (CreateScheduledPost(t) /\ UserExists(t.author_id))
                => /\ t \notin tasks'
                   /\ taskSeq' = taskSeq
                   /\ \E p \in posts' \ posts :
                         /\ posts' = posts \cup {p}
                         /\ p.author = t.author_id
                         /\ p.content = t.content]_vars
    /\ [][\A p \in posts' \ posts :
            \/ /\ resp'.op = "post_create"
               /\ resp'.status = 201
               /\ tasks' = tasks
            \/ /\ resp'.op = "create_scheduled_post"
               /\ \E t \in tasks \ tasks' :
                     p.author = t.author_id /\ p.content = t.content]_vars

\* the minimum delay has passed, the queue is empty again and the post of a
\* deferred request is there
C23_Witness ==
    /\ now >= MinDelaySeconds * TicksPerSecond
    /\ tasks = {}
    /\ taskSeq > 1
    /\ resp.op = "create_scheduled_post"
    /\ resp.detail = "success"
    /\ \E p \in posts : p.id > NumPosts /\ UserExists(p.author)

\* C24: every Like and Comment names an existing post and an existing user and
\* every Follow two existing users; the deletion of a post takes its likes
\* and comments with it and keeps the others, and the deletion of a user takes
\* the user's posts, likes, comments, profile and follows on either side with
\* it and keeps the rows that name neither the user nor a post of the user.
C24_ReferencesExist ==
    /\ \A r \in likes \cup comments : PostExists(r.post) /\ UserExists(r.user)
    /\ \A r \in follows : UserExists(r.follower) /\ UserExists(r.following)
    /\ \A p \in posts : UserExists(p.author)
    /\ \A u \in Users, pk \in RowPks :
          LET o == PostDestroyResult(u, pk)
          IN  o.resp.status = 204
                  => /\ o.posts = {p \in posts : p.id # pk}
                     /\ o.likes = {r \in likes : r.post # pk}
                     /\ o.comments = {r \in comments : r.post # pk}
    /\ \A u \in Users :
          LET o == UserDeleteResult(u)
              mine == {p.id : p \in {q \in posts : q.author = u}}
          IN  /\ o.userRows = {r \in userRows : r.id # u}
              /\ o.posts = {p \in posts : p.id \notin mine}
              /\ o.likes = {r \in likes : r.user # u /\ r.post \notin mine}
              /\ o.comments = {r \in comments : r.user # u /\ r.post \notin mine}
              /\ o.follows = {r \in follows : u \notin {r.follower, r.following}}
              /\ u \notin DOMAIN o.profileFollowing
              /\ DOMAIN o.profileFollowing = DOMAIN profileFollowing \ {u}

\* a user was deleted, and the comments and follows written before are gone
\* while a like of another user on another user's post is still there
C24_Witness ==
    /\ resp.op = "User.delete"
    /\ commentSeq > 1
    /\ comments = {}
    /\ followSeq > 1
    /\ follows = {}
    /\ likes # {}

====
